---- MODULE Spec2Model ----
(***************************************************************************)
(* A model of cleanhttp (src/cleanhttp.go): the rule compiler, the Matcher *)
(* (NewMatcher, AddRules, Match) and the redirect-correlation check.       *)
(*                                                                         *)
(* Go strings are sequences of one-character strings, Go maps are          *)
(* functions whose DOMAIN is the key set, Go slices are sequences, and a   *)
(* pointer that may be nil is a sequence of length 0 (nil) or 1.           *)
(* The iteration order of a Go map is unspecified: every loop over a map   *)
(* takes the order as a permutation chosen nondeterministically.           *)
(***************************************************************************)
EXTENDS Integers, Sequences, FiniteSets, TLC

VARIABLES
    matcher,    \* the *Matcher: <<>> when none was built, else <<rules map>>
    before,     \* the value of matcher when the last call started
    call,       \* the last call: its operation and its arguments
    ret,        \* what the last call returned
    heap,       \* header maps owned by callers, shared by reference
    gor         \* the locals of each goroutine running Match

vars == <<matcher, before, call, ret, heap, gor>>

(***************************************************************************)
(* Bounds of the model.                                                    *)
(***************************************************************************)
MaxSpecLen == 4     \* longest http_status_code text explored
MaxStatus == 23     \* largest response status explored
NumGoroutines == 2  \* concurrent Match calls explored

(***************************************************************************)
(* Strings (package strings, package strconv).                             *)
(***************************************************************************)
Uppers == <<"A","B","C","D","E","F","G","H","I","J","K","L","M",
            "N","O","P","Q","R","S","T","U","V","W","X","Y","Z">>
Lowers == <<"a","b","c","d","e","f","g","h","i","j","k","l","m",
            "n","o","p","q","r","s","t","u","v","w","x","y","z">>
Digits == <<"0","1","2","3","4","5","6","7","8","9">>

IsDigit(c) == \E i \in 1..10 : Digits[i] = c
DigitVal(c) == (CHOOSE i \in 1..10 : Digits[i] = c) - 1
IsUpper(c) == \E i \in 1..26 : Uppers[i] = c
IsLetter(c) == \E i \in 1..26 : Uppers[i] = c \/ Lowers[i] = c

\* strings.ToLower on one byte
LowerChar(c) == IF IsUpper(c) THEN Lowers[CHOOSE i \in 1..26 : Uppers[i] = c] ELSE c

\* strings.ToLower
ToLower(s) == [i \in 1..Len(s) |-> LowerChar(s[i])]

\* strings.HasPrefix
HasPrefix(s, p) == Len(p) <= Len(s) /\ SubSeq(s, 1, Len(p)) = p

\* strings.Contains
Contains(s, sub) ==
    \E i \in 0..(Len(s) - Len(sub)) : SubSeq(s, i + 1, i + Len(sub)) = sub

\* strings.Index of a single byte, 0-based, -1 when absent
IndexByte(s, c) ==
    IF \E i \in 1..Len(s) : s[i] = c
    THEN (CHOOSE i \in 1..Len(s) : s[i] = c /\ \A j \in 1..(i - 1) : s[j] # c) - 1
    ELSE -1

\* strings.LastIndexByte, 0-based, -1 when absent
LastIndexByte(s, c) ==
    IF \E i \in 1..Len(s) : s[i] = c
    THEN (CHOOSE i \in 1..Len(s) : s[i] = c /\ \A j \in (i + 1)..Len(s) : s[j] # c) - 1
    ELSE -1

\* the tail of s from 0-based index i: s[i:]
From(s, i) == SubSeq(s, i + 1, Len(s))

\* the head of s up to 0-based index i: s[:i]
Upto(s, i) == SubSeq(s, 1, i)

\* strings.Split(s, sep) for a one-byte separator
RECURSIVE Split(_, _)
Split(s, sep) ==
    LET i == IndexByte(s, sep)
    IN  IF i < 0 THEN <<s>> ELSE <<Upto(s, i)>> \o Split(From(s, i + 1), sep)

\* the value of a run of decimal digits
RECURSIVE DecimalValue(_)
DecimalValue(ds) ==
    IF Len(ds) = 0 THEN 0
    ELSE 10 * DecimalValue(Upto(ds, Len(ds) - 1)) + DigitVal(ds[Len(ds)])

\* strconv.Atoi: an optional sign, then one or more decimal digits
Atoi(s) ==
    LET signed == Len(s) > 0 /\ s[1] \in {"+", "-"}
        ds == IF signed THEN From(s, 1) ELSE s
    IN  IF Len(ds) = 0 \/ \E i \in 1..Len(ds) : ~IsDigit(ds[i])
        THEN [err |-> TRUE, val |-> 0]
        ELSE [err |-> FALSE,
              val |-> IF signed /\ s[1] = "-" THEN 0 - DecimalValue(ds) ELSE DecimalValue(ds)]

\* slices.Contains
SliceContains(sl, x) == \E i \in 1..Len(sl) : sl[i] = x

\* every order in which the keys of a Go map may be ranged over
Orders(keys) ==
    {o \in [1..Cardinality(keys) -> keys] : \A i, j \in 1..Cardinality(keys) : o[i] = o[j] => i = j}

\* a Go map with no entry
EmptyMap == [k \in {} |-> <<>>]

(***************************************************************************)
(* Regular expressions (package regexp).  The fragment modelled: literal   *)
(* bytes, ".", the class \d and plain groups; a pattern is rejected for an *)
(* unbalanced parenthesis, a trailing backslash or an unknown escape.      *)
(***************************************************************************)
RECURSIVE RegexSyntaxError(_, _)
RegexSyntaxError(p, depth) ==
    IF Len(p) = 0 THEN depth # 0
    ELSE IF p[1] = "\\" THEN Len(p) = 1 \/ p[2] # "d" \/ RegexSyntaxError(From(p, 2), depth)
    ELSE IF p[1] = "(" THEN RegexSyntaxError(From(p, 1), depth + 1)
    ELSE IF p[1] = ")" THEN depth = 0 \/ RegexSyntaxError(From(p, 1), depth - 1)
    ELSE RegexSyntaxError(From(p, 1), depth)

RECURSIVE RegexProg(_)
RegexProg(p) ==
    IF Len(p) = 0 THEN <<>>
    ELSE IF p[1] = "\\" THEN <<[op |-> "digit", c |-> p[2]]>> \o RegexProg(From(p, 2))
    ELSE IF p[1] \in {"(", ")"} THEN RegexProg(From(p, 1))
    ELSE IF p[1] = "." THEN <<[op |-> "any", c |-> "."]>> \o RegexProg(From(p, 1))
    ELSE <<[op |-> "byte", c |-> p[1]]>> \o RegexProg(From(p, 1))

\* regexp.Compile
regexpCompile(pattern) ==
    IF RegexSyntaxError(pattern, 0)
    THEN [err |-> TRUE, re |-> <<>>]
    ELSE [err |-> FALSE, re |-> RegexProg(pattern)]

InstAccepts(inst, c) ==
    CASE inst.op = "byte" -> c = inst.c
      [] inst.op = "digit" -> IsDigit(c)
      [] OTHER -> c # "\n"

\* (*Regexp).MatchString: the pattern is found anywhere in s
MatchString(re, s) ==
    \E i \in 0..(Len(s) - Len(re)) : \A j \in 1..Len(re) : InstAccepts(re[j], s[i + j])

(***************************************************************************)
(* URLs (package net/url).  The fragment modelled has no query, fragment,  *)
(* userinfo, IPv6 literal or percent escape.                               *)
(***************************************************************************)
IsCTL(c) == c \in {"\t", "\n", "\r"}

\* validOptionalPort: "" or ":" followed by digits
validOptionalPort(port) ==
    \/ Len(port) = 0
    \/ port[1] = ":" /\ \A i \in 2..Len(port) : IsDigit(port[i])

\* getScheme: [err, scheme, rest]
getScheme(raw) ==
    LET stop(i) == ~IsLetter(raw[i]) /\ ~(i > 1 /\ (IsDigit(raw[i]) \/ raw[i] \in {"+", "-", "."}))
    IN  IF \A i \in 1..Len(raw) : ~stop(i)
        THEN [err |-> FALSE, scheme |-> <<>>, rest |-> raw]
        ELSE LET i == CHOOSE k \in 1..Len(raw) : stop(k) /\ \A j \in 1..(k - 1) : ~stop(j)
             IN  IF raw[i] # ":" THEN [err |-> FALSE, scheme |-> <<>>, rest |-> raw]
                 ELSE IF i = 1 THEN [err |-> TRUE, scheme |-> <<>>, rest |-> <<>>]
                 ELSE [err |-> FALSE, scheme |-> Upto(raw, i - 1), rest |-> From(raw, i)]

\* parseHost: [err, host]
parseHost(host) ==
    LET i == LastIndexByte(host, ":")
    IN  IF i # -1 /\ ~validOptionalPort(From(host, i)) THEN [err |-> TRUE, host |-> <<>>]
        ELSE IF \E k \in 1..Len(host) : host[k] = " " THEN [err |-> TRUE, host |-> <<>>]
        ELSE [err |-> FALSE, host |-> host]

URLError == [err |-> TRUE, Scheme |-> <<>>, Opaque |-> <<>>, Host |-> <<>>, Path |-> <<>>]

\* url.Parse: [err, Scheme, Opaque, Host, Path]
urlParse(raw) ==
    IF \E i \in 1..Len(raw) : IsCTL(raw[i]) THEN URLError
    ELSE IF raw = <<"*">>
    THEN [err |-> FALSE, Scheme |-> <<>>, Opaque |-> <<>>, Host |-> <<>>, Path |-> raw]
    ELSE
    LET gs == getScheme(raw)
        scheme == ToLower(gs.scheme)
        rest == gs.rest
    IN  IF gs.err THEN URLError
        ELSE IF ~HasPrefix(rest, <<"/">>) /\ Len(scheme) # 0
        THEN [err |-> FALSE, Scheme |-> scheme, Opaque |-> rest, Host |-> <<>>, Path |-> <<>>]
        ELSE IF ~HasPrefix(rest, <<"/">>) /\ Contains(Split(rest, "/")[1], <<":">>)
        THEN URLError
        ELSE IF (Len(scheme) # 0 \/ ~HasPrefix(rest, <<"/", "/", "/">>)) /\ HasPrefix(rest, <<"/", "/">>)
        THEN LET auth0 == From(rest, 2)
                 i == IndexByte(auth0, "/")
                 authority == IF i >= 0 THEN Upto(auth0, i) ELSE auth0
                 path == IF i >= 0 THEN From(auth0, i) ELSE <<>>
                 h == parseHost(authority)
             IN  IF h.err THEN URLError
                 ELSE [err |-> FALSE, Scheme |-> scheme, Opaque |-> <<>>, Host |-> h.host, Path |-> path]
        ELSE [err |-> FALSE, Scheme |-> scheme, Opaque |-> <<>>, Host |-> <<>>, Path |-> rest]

\* (*URL).Port
urlPort(u) ==
    LET colon == LastIndexByte(u.Host, ":")
    IN  IF colon # -1 /\ validOptionalPort(From(u.Host, colon))
        THEN From(u.Host, colon + 1)
        ELSE <<>>

\* (*URL).Hostname
urlHostname(u) ==
    LET colon == LastIndexByte(u.Host, ":")
    IN  IF colon # -1 /\ validOptionalPort(From(u.Host, colon))
        THEN Upto(u.Host, colon)
        ELSE u.Host

\* (*URL).IsAbs
IsAbs(u) == Len(u.Scheme) # 0

(***************************************************************************)
(* The rule compiler.                                                      *)
(***************************************************************************)
\* Rule{}: the zero value of the compiled rule
ZeroRule ==
    [StatusMin |-> 0, StatusMax |-> 0, Headers |-> EmptyMap, BodyContains |-> <<>>,
     BodyRegex |-> <<>>, TitleExact |-> <<>>, RedirectCheck |-> <<>>]

\* the range loop storing every key as written, without strings.ToLower
RangeVerbatim(m, ord) == [k \in DOMAIN m |-> m[k]]

\* for k, v := range m { out[strings.ToLower(k)] = v }, ranging in order ord:
\* the last key written under a lowered name wins
RangeLowered(m, ord) ==
    [lk \in {ToLower(k) : k \in DOMAIN m} |->
        LET last == CHOOSE i \in 1..Len(ord) :
                        /\ ToLower(ord[i]) = lk
                        /\ \A j \in (i + 1)..Len(ord) : ToLower(ord[j]) # lk
        IN  m[ord[last]]]

\* StatusBounds with the single-value case setting only the lower bound
StatusBoundsLowerOnly(text) ==
    IF Len(text) = 0 THEN [err |-> FALSE, min |-> 0, max |-> 0]
    ELSE
    LET parts == Split(text, "-")
    IN  CASE Len(parts) = 1 ->
                LET a == Atoi(parts[1])
                IN  IF ~a.err THEN [err |-> FALSE, min |-> a.val, max |-> 0]
                    ELSE [err |-> FALSE, min |-> 0, max |-> 0]
          [] Len(parts) = 2 ->
                LET lo == Atoi(parts[1]).val
                    hi == Atoi(parts[2]).val
                IN  IF lo > 0 /\ hi > 0 THEN [err |-> FALSE, min |-> lo, max |-> hi]
                    ELSE [err |-> FALSE, min |-> 0, max |-> 0]
          [] OTHER -> [err |-> TRUE, min |-> 0, max |-> 0]

\* the status bounds read from http_status_code: [err, min, max]
StatusBounds(text) ==
    IF Len(text) = 0 THEN [err |-> FALSE, min |-> 0, max |-> 0]
    ELSE
    LET parts == Split(text, "-")
    IN  CASE Len(parts) = 1 ->
                LET a == Atoi(parts[1])
                IN  IF ~a.err THEN [err |-> FALSE, min |-> a.val, max |-> a.val]
                    ELSE [err |-> FALSE, min |-> 0, max |-> 0]
          [] Len(parts) = 2 ->
                LET lo == Atoi(parts[1]).val
                    hi == Atoi(parts[2]).val
                IN  IF lo > 0 /\ hi > 0 THEN [err |-> FALSE, min |-> lo, max |-> hi]
                    ELSE [err |-> FALSE, min |-> 0, max |-> 0]
          [] OTHER -> [err |-> TRUE, min |-> 0, max |-> 0]

\* the loop over http_body_regex skipping a pattern that does not compile
RECURSIVE CompileRegexesSkipBad(_, _)
CompileRegexesSkipBad(patterns, acc) ==
    IF Len(patterns) = 0 THEN [err |-> FALSE, pattern |-> <<>>, res |-> acc]
    ELSE LET c == regexpCompile(patterns[1])
         IN  IF c.err THEN CompileRegexesSkipBad(Tail(patterns), acc)
             ELSE CompileRegexesSkipBad(Tail(patterns), Append(acc, c.re))

\* the loop over http_body_regex: [err, pattern, res]; it stops at the first
\* pattern that does not compile
RECURSIVE CompileRegexes(_, _)
CompileRegexes(patterns, acc) ==
    IF Len(patterns) = 0 THEN [err |-> FALSE, pattern |-> <<>>, res |-> acc]
    ELSE LET c == regexpCompile(patterns[1])
         IN  IF c.err THEN [err |-> TRUE, pattern |-> patterns[1], res |-> acc]
             ELSE CompileRegexes(Tail(patterns), Append(acc, c.re))

\* compileRule, ranging over jr.HTTPHeader in order hord: [err, rule];
\* err is <<>> (nil) or <<the error>>
compileRule(jr, hord) ==
    LET sb == StatusBounds(jr.HTTPStatusCode)
        rx == CompileRegexes(jr.HTTPBodyRegex, <<>>)
    IN  IF sb.err
        THEN [err |-> <<[kind |-> "invalid status code format", text |-> jr.HTTPStatusCode]>>,
              rule |-> ZeroRule]
        ELSE IF rx.err
        THEN [err |-> <<[kind |-> "invalid body regex pattern", text |-> rx.pattern]>>,
              rule |-> ZeroRule]
        ELSE [err |-> <<>>,
              rule |-> [StatusMin |-> sb.min, StatusMax |-> sb.max,
                        Headers |-> RangeLowered(jr.HTTPHeader, hord),
                        BodyContains |-> jr.HTTPBody,
                        BodyRegex |-> rx.res,
                        TitleExact |-> jr.HTTPTitle,
                        RedirectCheck |-> jr.CheckRedirect]]

(***************************************************************************)
(* Evaluation of one rule.                                                 *)
(***************************************************************************)
\* getPortFromURL
getPortFromURL(u) ==
    LET port == urlPort(u)
        p == Atoi(port)
    IN  IF Len(port) # 0 /\ ~p.err THEN p.val
        ELSE CASE u.Scheme = <<"h","t","t","p","s">> -> 443
               [] u.Scheme = <<"h","t","t","p">> -> 80
               [] OTHER -> 0

LocationKey == <<"l","o","c","a","t","i","o","n">>

\* matchRedirectRule without the check of the path of the location
matchRedirectRuleAnyPath(resp, redirectRule) ==
    LET parsedOriginalURL == urlParse(resp.RequestURL)
    IN  IF parsedOriginalURL.err THEN FALSE
        ELSE IF ~SliceContains(redirectRule.SourcePorts, getPortFromURL(parsedOriginalURL)) THEN FALSE
        ELSE IF LocationKey \notin DOMAIN resp.Headers THEN FALSE
        ELSE
        LET parsed == urlParse(resp.Headers[LocationKey])
            parsedLocation ==
                IF ~IsAbs(parsed)
                THEN [parsed EXCEPT !.Scheme = parsedOriginalURL.Scheme,
                                    !.Host = parsedOriginalURL.Host]
                ELSE parsed
        IN  IF parsed.err THEN FALSE
            ELSE SliceContains(redirectRule.TargetPorts, getPortFromURL(parsedLocation))

\* matchRedirectRule; resp.Headers is the map Match lowered
matchRedirectRule(resp, redirectRule) ==
    LET parsedOriginalURL == urlParse(resp.RequestURL)
    IN  IF parsedOriginalURL.err THEN FALSE
        ELSE IF ~SliceContains(redirectRule.SourcePorts, getPortFromURL(parsedOriginalURL)) THEN FALSE
        ELSE IF LocationKey \notin DOMAIN resp.Headers THEN FALSE
        ELSE
        LET parsed == urlParse(resp.Headers[LocationKey])
            parsedLocation ==
                IF ~IsAbs(parsed)
                THEN [parsed EXCEPT !.Scheme = parsedOriginalURL.Scheme,
                                    !.Host = parsedOriginalURL.Host]
                ELSE parsed
        IN  IF parsed.err THEN FALSE
            ELSE IF redirectRule.RedirectToRootHost
                    /\ parsedLocation.Path # <<"/">> /\ parsedLocation.Path # <<>>
            THEN FALSE
            ELSE SliceContains(redirectRule.TargetPorts, getPortFromURL(parsedLocation))

\* matchRule without the title check
matchRuleNoTitle(resp, rule) ==
    IF rule.StatusMin # 0 /\ resp.StatusCode < rule.StatusMin THEN FALSE
    ELSE IF rule.StatusMax # 0 /\ resp.StatusCode > rule.StatusMax THEN FALSE
    ELSE IF \E header \in DOMAIN rule.Headers :
                \/ header \notin DOMAIN resp.Headers
                \/ ~Contains(resp.Headers[header], rule.Headers[header])
    THEN FALSE
    ELSE IF \E i \in 1..Len(rule.BodyContains) : ~Contains(resp.Body, rule.BodyContains[i])
    THEN FALSE
    ELSE IF \E i \in 1..Len(rule.BodyRegex) : ~MatchString(rule.BodyRegex[i], resp.Body)
    THEN FALSE
    ELSE IF Len(rule.RedirectCheck) # 0 /\ ~matchRedirectRule(resp, rule.RedirectCheck[1])
    THEN FALSE
    ELSE TRUE

\* matchRule
matchRule(resp, rule) ==
    IF rule.StatusMin # 0 /\ resp.StatusCode < rule.StatusMin THEN FALSE
    ELSE IF rule.StatusMax # 0 /\ resp.StatusCode > rule.StatusMax THEN FALSE
    ELSE IF \E header \in DOMAIN rule.Headers :
                \/ header \notin DOMAIN resp.Headers
                \/ ~Contains(resp.Headers[header], rule.Headers[header])
    THEN FALSE
    ELSE IF \E i \in 1..Len(rule.BodyContains) : ~Contains(resp.Body, rule.BodyContains[i])
    THEN FALSE
    ELSE IF \E i \in 1..Len(rule.BodyRegex) : ~MatchString(rule.BodyRegex[i], resp.Body)
    THEN FALSE
    ELSE IF rule.TitleExact # <<>> /\ resp.Title # rule.TitleExact THEN FALSE
    ELSE IF Len(rule.RedirectCheck) # 0 /\ ~matchRedirectRule(resp, rule.RedirectCheck[1])
    THEN FALSE
    ELSE TRUE

(***************************************************************************)
(* The Matcher: load, merge and evaluation as whole calls.                 *)
(***************************************************************************)
\* json.Unmarshal into ServicesJSON: a document is either malformed or holds
\* the services object, one fresh RuleJSON per provider key
jsonUnmarshal(data) ==
    IF data.malformed THEN [err |-> TRUE, Services |-> <<>>]
    ELSE [err |-> FALSE, Services |-> data.Services]

\* InstallRules keeping the entry a provider already has
RECURSIVE InstallRulesKeepFirst(_, _, _, _)
InstallRulesKeepFirst(rules, services, pord, hords) ==
    IF Len(pord) = 0 THEN [err |-> <<>>, rules |-> rules]
    ELSE LET provider == Head(pord)
             c == compileRule(services[provider], hords[provider])
         IN  IF Len(c.err) # 0
             THEN [err |-> <<[msg |-> "compiling rule for", provider |-> provider,
                              cause |-> c.err[1]]>>,
                   rules |-> rules]
             ELSE InstallRulesKeepFirst(
                     [q \in DOMAIN rules \cup {provider} |->
                         IF q \in DOMAIN rules THEN rules[q] ELSE c.rule],
                     services, Tail(pord), hords)

\* InstallRules storing what compileRule returned before looking at its error
RECURSIVE InstallRulesStoreFirst(_, _, _, _)
InstallRulesStoreFirst(rules, services, pord, hords) ==
    IF Len(pord) = 0 THEN [err |-> <<>>, rules |-> rules]
    ELSE LET provider == Head(pord)
             c == compileRule(services[provider], hords[provider])
             stored == [q \in DOMAIN rules \cup {provider} |->
                            IF q = provider THEN c.rule ELSE rules[q]]
         IN  IF Len(c.err) # 0
             THEN [err |-> <<[msg |-> "compiling rule for", provider |-> provider,
                              cause |-> c.err[1]]>>,
                   rules |-> stored]
             ELSE InstallRulesStoreFirst(stored, services, Tail(pord), hords)

\* the loop `for provider, jsonRule := range servicesJSON.Services` of AddRules
\* and NewMatcher over the providers left in pord, compiling each rule with
\* the header order hords[provider]: [err, rules]
RECURSIVE InstallRules(_, _, _, _)
InstallRules(rules, services, pord, hords) ==
    IF Len(pord) = 0 THEN [err |-> <<>>, rules |-> rules]
    ELSE LET provider == Head(pord)
             c == compileRule(services[provider], hords[provider])
         IN  IF Len(c.err) # 0
             THEN [err |-> <<[msg |-> "compiling rule for", provider |-> provider,
                              cause |-> c.err[1]]>>,
                   rules |-> rules]
             ELSE InstallRules(
                     [q \in DOMAIN rules \cup {provider} |->
                         IF q = provider THEN c.rule ELSE rules[q]],
                     services, Tail(pord), hords)

\* Matcher.Match with the header map ranged in order hord and m.rules in order pord
MatchResult(rules, resp, hord, pord) ==
    LET lowered == [resp EXCEPT !.Headers = RangeLowered(resp.Headers, hord)]
    IN  SelectSeq(pord, LAMBDA provider : matchRule(lowered, rules[provider]))

(***************************************************************************)
(* Values shared by the specifications.                                    *)
(***************************************************************************)
\* every string over alphabet of length at most n
RECURSIVE StringsUpTo(_, _)
StringsUpTo(alphabet, n) ==
    IF n = 0 THEN {<<>>}
    ELSE LET shorter == StringsUpTo(alphabet, n - 1)
         IN  shorter \cup {Append(t, c) : t \in shorter, c \in alphabet}

\* a RuleJSON with no field populated
EmptyRuleJSON ==
    [HTTPStatusCode |-> <<>>, HTTPHeader |-> EmptyMap, HTTPBody |-> <<>>,
     HTTPBodyRegex |-> <<>>, HTTPTitle |-> <<>>, CheckRedirect |-> <<>>]

\* a Response with no field populated
EmptyResponse ==
    [StatusCode |-> 0, Headers |-> EmptyMap, Body |-> <<>>, Title |-> <<>>, RequestURL |-> <<>>]

Idle == [op |-> "none"]

(***************************************************************************)
(* SpecStatus: the status predicate.  A status text is compiled, then a    *)
(* response with some status code is evaluated against the compiled rule.  *)
(***************************************************************************)
StatusAlphabet == {"0", "1", "2", "-", "a"}
StatusTexts == StringsUpTo(StatusAlphabet, MaxSpecLen)

InitStatus ==
    /\ matcher = <<>>
    /\ before = <<>>
    /\ heap = EmptyMap
    /\ gor = <<>>
    /\ \E text \in StatusTexts, s \in 0..MaxStatus :
            call = [op |-> "status", text |-> text, status |-> s]
    /\ ret = [stage |-> "start"]

CompileStatus ==
    /\ ret.stage = "start"
    /\ LET c == compileRule([EmptyRuleJSON EXCEPT !.HTTPStatusCode = call.text], <<>>)
       IN  ret' = [stage |-> "compiled", err |-> c.err, rule |-> c.rule]
    /\ UNCHANGED <<matcher, before, call, heap, gor>>

MatchStatus ==
    /\ ret.stage = "compiled"
    /\ ret.err = <<>>
    /\ ret' = [stage |-> "matched", err |-> ret.err, rule |-> ret.rule,
               admitted |-> matchRule([EmptyResponse EXCEPT !.StatusCode = call.status], ret.rule)]
    /\ UNCHANGED <<matcher, before, call, heap, gor>>

NextStatus == CompileStatus \/ MatchStatus

SpecStatus == InitStatus /\ [][NextStatus]_vars

(***************************************************************************)
(* C4: the status predicate.                                               *)
(***************************************************************************)
\* strconv.Itoa for a natural number: the text that writes n
RECURSIVE Itoa(_)
Itoa(n) == IF n < 10 THEN <<Digits[n + 1]>> ELSE Append(Itoa(n \div 10), Digits[(n % 10) + 1])

Written == 0..(MaxStatus + 1)
SingleText == [n \in Written |-> Itoa(n)]
RangeText == [n \in Written |-> [m \in Written |-> Itoa(n) \o <<"-">> \o Itoa(m)]]

\* C4 as stated: a status text "N" admits exactly the status N, and a status
\* text "N-M" admits exactly the statuses s with N <= s <= M, for every N and M.
C4_AsStated ==
    ret.stage = "matched" =>
        \A n \in Written :
            /\ call.text = SingleText[n] => (ret.admitted <=> call.status = n)
            /\ \A m \in Written :
                    call.text = RangeText[n][m] =>
                        (ret.admitted <=> (n <= call.status /\ call.status <= m))

\* C4 amended: a status text "N" sets both bounds to N and, with N >= 1, admits exactly the status N, a
\* status text "N-M" with N >= 1 and M >= 1 admits exactly the statuses s with
\* N <= s <= M, and a status text in which a written bound is 0 admits every
\* status.
C4_StatusInterval ==
    ret.stage = "matched" =>
        \A n \in Written :
            /\ call.text = SingleText[n] =>
                    /\ ret.rule.StatusMin = n /\ ret.rule.StatusMax = n
                    /\ ret.admitted <=> (n = 0 \/ call.status = n)
            /\ \A m \in Written :
                    call.text = RangeText[n][m] =>
                        (ret.admitted <=>
                            (n = 0 \/ m = 0 \/ (n <= call.status /\ call.status <= m)))

\* C4 witness: the range "1-2" has admitted its upper end 2
C4_Witness ==
    /\ ret.stage = "matched"
    /\ call.text = <<"1", "-", "2">>
    /\ call.status = 2
    /\ ret.admitted

(***************************************************************************)
(* SpecRedirect: the redirect-correlation check.  A request URL, a         *)
(* location header (or none) and a check_redirect object are drawn and the *)
(* rule holding only that object is compiled and evaluated.                *)
(***************************************************************************)
HTTPS == <<"h","t","t","p","s">>
HTTP == <<"h","t","t","p">>
FTP == <<"f","t","p">>
SchemeSep == <<":", "/", "/">>

RequestURLs ==
    {sch \o SchemeSep \o <<"e">> \o port \o <<"/">> :
        sch \in {HTTPS, HTTP, FTP}, port \in {<<>>, <<":", "8">>, <<":", "x">>}}
    \cup {<<>>, <<":", "e">>, <<"e", "/">>, <<"H","T","T","P","S">> \o SchemeSep \o <<"e", "/">>}

Locations ==
    {sch \o SchemeSep \o host \o port \o path :
        sch \in {HTTPS, HTTP}, host \in {<<"e">>, <<"d">>},
        port \in {<<>>, <<":", "8">>, <<":", "9">>},
        path \in {<<>>, <<"/">>, <<"/", "p">>}}
    \cup {<<>>, <<"/">>, <<"/", "p">>, <<"p">>, <<"/", "/", "d", ":", "9", "/">>, <<":", "e">>}

\* the location header of a response: none, or one value
LocationHeaders == {<<>>} \cup {<<l>> : l \in Locations}

CheckRedirects ==
    [SourcePorts : {<<8>>, <<443, 80>>, <<0>>},
     TargetPorts : {<<443>>, <<8, 80>>, <<9, 0>>},
     RedirectToRootHost : BOOLEAN]

\* the lowered header map of a response with at most a location header
LocationOnly(loc) == IF Len(loc) = 0 THEN EmptyMap ELSE (LocationKey :> loc[1])

InitRedirect ==
    /\ matcher = <<>>
    /\ before = <<>>
    /\ heap = EmptyMap
    /\ gor = <<>>
    /\ \E u \in RequestURLs, loc \in LocationHeaders, cr \in CheckRedirects :
            call = [op |-> "redirect", RequestURL |-> u, location |-> loc, check |-> cr]
    /\ ret = [stage |-> "start"]

EvalRedirect ==
    /\ ret.stage = "start"
    /\ LET c == compileRule([EmptyRuleJSON EXCEPT !.CheckRedirect = <<call.check>>], <<>>)
           resp == [EmptyResponse EXCEPT !.RequestURL = call.RequestURL,
                                         !.Headers = LocationOnly(call.location)]
       IN  ret' = [stage |-> "done", err |-> c.err, matched |-> matchRule(resp, c.rule)]
    /\ UNCHANGED <<matcher, before, call, heap, gor>>

NextRedirect == EvalRedirect

SpecRedirect == InitRedirect /\ [][NextRedirect]_vars

(***************************************************************************)
(* C6, C7: redirect correlation.                                           *)
(***************************************************************************)
\* p is the effective port of u: the explicit port when one is written, else
\* 443 for https, 80 for http and 0 for any other scheme
EffectivePortIs(u, p) ==
    IF Len(urlPort(u)) # 0 THEN p >= 0 /\ urlPort(u) = Itoa(p)
    ELSE IF u.Scheme = HTTPS THEN p = 443
    ELSE IF u.Scheme = HTTP THEN p = 80
    ELSE p = 0

EffectivePortIn(u, ports) == \E i \in 1..Len(ports) : EffectivePortIs(u, ports[i])

\* the location resolved against the request: scheme and host of the request
\* when the location is not absolute
Resolved(l, o) ==
    [Scheme |-> IF Len(l.Scheme) = 0 THEN o.Scheme ELSE l.Scheme,
     Host |-> IF Len(l.Scheme) = 0 THEN o.Host ELSE l.Host,
     Path |-> l.Path]

\* the redirect correlation of the claim: the request URL parses, its effective
\* port is a source port, there is a location that parses, its path is "/" or
\* empty when the root is required, and the effective port of the resolved
\* location is a target port; location is <<>> (no header) or <<value>>
RedirectCorrelated(requestURL, location, check) ==
    LET o == urlParse(requestURL)
    IN  /\ ~o.err
        /\ EffectivePortIn(o, check.SourcePorts)
        /\ Len(location) = 1
        /\ LET l == urlParse(location[1])
           IN  /\ ~l.err
               /\ check.RedirectToRootHost => l.Path \in {<<"/">>, <<>>}
               /\ EffectivePortIn(Resolved(l, o), check.TargetPorts)

C7_DifferentHostNoMatch ==
    (/\ ret.stage = "done"
     /\ call.check.RedirectToRootHost
     /\ Len(call.location) = 1
     /\ ~urlParse(call.RequestURL).err
     /\ ~urlParse(call.location[1]).err
     /\ IsAbs(urlParse(call.location[1]))
     /\ Len(urlHostname(urlParse(call.RequestURL))) # 0
     /\ urlHostname(urlParse(call.location[1])) # urlHostname(urlParse(call.RequestURL)))
    => ~ret.matched

(***************************************************************************)
(* Spec: one Matcher through its life.  NewMatcher builds it, AddRules     *)
(* merges documents into it, Match evaluates responses; Done is the caller *)
(* taking the returned value, which ends the call.                         *)
(***************************************************************************)
Providers == {"cf", "ak"}

ServerKey == <<"S">>
RootCheck == [SourcePorts |-> <<8>>, TargetPorts |-> <<443>>, RedirectToRootHost |-> TRUE]

\* the rule descriptions documents are made of
RuleDescs ==
    { EmptyRuleJSON,
      [EmptyRuleJSON EXCEPT !.HTTPStatusCode = <<"2">>],
      [EmptyRuleJSON EXCEPT !.HTTPStatusCode = <<"1", "-", "2", "-", "3">>],
      [EmptyRuleJSON EXCEPT !.HTTPHeader = (ServerKey :> <<"c">>)],
      [EmptyRuleJSON EXCEPT !.HTTPHeader = (ServerKey :> <<"c">>) @@ (<<"s">> :> <<"n">>)],
      [EmptyRuleJSON EXCEPT !.HTTPBody = <<<<"e">>>>],
      [EmptyRuleJSON EXCEPT !.HTTPBodyRegex = <<<<"e", "\\", "d">>>>],
      [EmptyRuleJSON EXCEPT !.HTTPBodyRegex = <<<<"e">>, <<"(">>>>],
      [EmptyRuleJSON EXCEPT !.HTTPTitle = <<"T">>],
      [EmptyRuleJSON EXCEPT !.CheckRedirect = <<RootCheck>>],
      [EmptyRuleJSON EXCEPT !.HTTPStatusCode = <<"1", "-", "2">>,
                            !.HTTPHeader = (<<"s">> :> <<"c">>),
                            !.HTTPBodyRegex = <<<<"e", ".">>>>],
      [EmptyRuleJSON EXCEPT !.HTTPStatusCode = <<"1", "-", "-">>,
                            !.HTTPBodyRegex = <<<<"(">>>>,
                            !.HTTPTitle = <<"T">>] }

Malformed == [malformed |-> TRUE, Services |-> <<>>]

\* the documents: a malformed one, and every services object over the providers
Documents ==
    {Malformed} \cup
    {[malformed |-> FALSE, Services |-> sv] :
        sv \in UNION {[ps -> RuleDescs] : ps \in SUBSET Providers}}

\* the embedded rules.json
defaultRules ==
    [malformed |-> FALSE,
     Services |-> ("cf" :> [EmptyRuleJSON EXCEPT !.HTTPStatusCode = <<"1", "-", "2">>,
                                                 !.HTTPHeader = (<<"s">> :> <<"c">>),
                                                 !.HTTPBodyRegex = <<<<"e", ".">>>>])
                  @@ ("ak" :> [EmptyRuleJSON EXCEPT !.HTTPTitle = <<"T">>])]

\* rulesPath values: "" is the embedded document, the other paths name files
DefaultPath == ""
MissingPath == "nonexistent.json"
FilePath == "rules.json"

\* os.ReadFile: the missing file fails, the other file holds any document
ReadFile(path) ==
    IF path = MissingPath THEN {[err |-> TRUE, data |-> Malformed]}
    ELSE {[err |-> FALSE, data |-> d] : d \in Documents}

\* the responses evaluated
ResponseHeaders ==
    { EmptyMap,
      (ServerKey :> <<"c">>),
      (<<"s">> :> <<"x", "c">>),
      (ServerKey :> <<"n">>),
      (ServerKey :> <<"c">>) @@ (<<"s">> :> <<"n">>),
      (<<"s">> :> <<"c">>) @@ (<<"L","o","c","a","t","i","o","n">> :> HTTPS \o SchemeSep \o <<"e", "/">>) }

Responses ==
    [StatusCode : {2, 3},
     Headers : ResponseHeaders,
     Body : {<<>>, <<"e", "1">>},
     Title : {<<>>, <<"T">>},
     RequestURL : {<<>>, HTTPS \o SchemeSep \o <<"e", ":", "8", "/">>}]

\* one range order of the http_header map for every provider of a services object
HeaderOrders(services) ==
    {h \in [DOMAIN services -> UNION {Orders(DOMAIN d.HTTPHeader) : d \in RuleDescs}] :
        \A q \in DOMAIN services : h[q] \in Orders(DOMAIN services[q].HTTPHeader)}

Init ==
    /\ matcher = <<>>
    /\ before = <<>>
    /\ call = Idle
    /\ ret = Idle
    /\ heap = EmptyMap
    /\ gor = <<>>

\* NewMatcher(rulesPath)
NewMatcher ==
    /\ call.op = "none"
    /\ matcher = <<>>
    /\ \E rulesPath \in {DefaultPath, MissingPath, FilePath} :
       \E file \in (IF rulesPath = DefaultPath
                    THEN {[err |-> FALSE, data |-> defaultRules]}
                    ELSE ReadFile(rulesPath)) :
         /\ call' = [op |-> "NewMatcher", rulesPath |-> rulesPath, data |-> file.data]
         /\ IF file.err
            THEN ret' = [err |-> <<[msg |-> "reading rules file"]>>, m |-> <<>>]
            ELSE LET servicesJSON == jsonUnmarshal(file.data)
                 IN  IF servicesJSON.err
                     THEN ret' = [err |-> <<[msg |-> "parsing rules JSON"]>>, m |-> <<>>]
                     ELSE \E pord \in Orders(DOMAIN servicesJSON.Services),
                             hords \in HeaderOrders(servicesJSON.Services) :
                            LET r == InstallRules(<<>>, servicesJSON.Services, pord, hords)
                            IN  ret' = [err |-> r.err,
                                        m |-> IF Len(r.err) # 0 THEN <<>> ELSE <<r.rules>>]
    /\ matcher' = ret'.m
    /\ before' = matcher
    /\ UNCHANGED <<heap, gor>>

\* (*Matcher).AddRules(data)
AddRules ==
    /\ call.op = "none"
    /\ matcher # <<>>
    /\ \E data \in Documents :
         /\ call' = [op |-> "AddRules", data |-> data]
         /\ LET servicesJSON == jsonUnmarshal(data)
            IN  IF servicesJSON.err
                THEN /\ ret' = [err |-> <<[msg |-> "parsing rules JSON"]>>]
                     /\ matcher' = matcher
                ELSE \E pord \in Orders(DOMAIN servicesJSON.Services),
                        hords \in HeaderOrders(servicesJSON.Services) :
                       LET r == InstallRules(matcher[1], servicesJSON.Services, pord, hords)
                       IN  /\ ret' = [err |-> r.err]
                           /\ matcher' = <<r.rules>>
    /\ before' = matcher
    /\ UNCHANGED <<heap, gor>>

\* (*Matcher).Match(resp)
Match ==
    /\ call.op = "none"
    /\ matcher # <<>>
    /\ \E resp \in Responses :
       \E hord \in Orders(DOMAIN resp.Headers), pord \in Orders(DOMAIN matcher[1]) :
         /\ call' = [op |-> "Match", resp |-> resp]
         /\ ret' = [matches |-> MatchResult(matcher[1], resp, hord, pord)]
    /\ before' = matcher
    /\ UNCHANGED <<matcher, heap, gor>>

\* the caller takes the returned value: the call is over
Done ==
    /\ call.op # "none"
    /\ call' = Idle
    /\ ret' = Idle
    /\ before' = matcher
    /\ UNCHANGED <<matcher, heap, gor>>

Next == NewMatcher \/ AddRules \/ Match \/ Done

Spec == Init /\ [][Next]_vars

(***************************************************************************)
(* C1: Match returns exactly the providers whose populated predicates hold.*)
(***************************************************************************)
SeqToSet(sq) == {sq[i] : i \in 1..Len(sq)}

\* the case-insensitive views of a header map: under every lowered key, the
\* value of a key of the map that lowers to it
NormalizedViews(headers) ==
    LET lks == {ToLower(k) : k \in DOMAIN headers}
        vals == {headers[k] : k \in DOMAIN headers}
    IN  {v \in [lks -> vals] :
            \A lk \in lks : \E k \in DOMAIN headers : ToLower(k) = lk /\ v[lk] = headers[k]}

\* every populated predicate of rule holds of resp, seen through the view
AllPopulatedHold(rule, resp, view) ==
    /\ rule.StatusMin # 0 => resp.StatusCode >= rule.StatusMin
    /\ rule.StatusMax # 0 => resp.StatusCode <= rule.StatusMax
    /\ \A h \in DOMAIN rule.Headers : h \in DOMAIN view /\ Contains(view[h], rule.Headers[h])
    /\ \A i \in 1..Len(rule.BodyContains) : Contains(resp.Body, rule.BodyContains[i])
    /\ \A i \in 1..Len(rule.BodyRegex) : MatchString(rule.BodyRegex[i], resp.Body)
    /\ rule.TitleExact # <<>> => resp.Title = rule.TitleExact
    /\ Len(rule.RedirectCheck) = 1 =>
            RedirectCorrelated(resp.RequestURL,
                               IF LocationKey \in DOMAIN view THEN <<view[LocationKey]>> ELSE <<>>,
                               rule.RedirectCheck[1])

\* C1: Match returns each provider at most once and returns exactly the
\* providers whose compiled rule has every populated predicate satisfied by the
\* response (seen through its normalized headers); the result is empty, not an
\* error, when no provider qualifies.
C1_MatchExactly ==
    call.op = "Match" =>
        /\ \A i, j \in 1..Len(ret.matches) : ret.matches[i] = ret.matches[j] => i = j
        /\ \E view \in NormalizedViews(call.resp.Headers) :
                SeqToSet(ret.matches) =
                    {q \in DOMAIN matcher[1] : AllPopulatedHold(matcher[1][q], call.resp, view)}

\* C1 witness: Match returned two providers, one of them by a rule with status
\* bounds, a header and a body regex, the other by a rule with a title
C1_Witness ==
    /\ call.op = "Match"
    /\ Len(ret.matches) = 2
    /\ \E q \in SeqToSet(ret.matches) :
            /\ matcher[1][q].StatusMin # 0
            /\ DOMAIN matcher[1][q].Headers # {}
            /\ Len(matcher[1][q].BodyRegex) # 0
    /\ \E q \in SeqToSet(ret.matches) : matcher[1][q].TitleExact # <<>>

(***************************************************************************)
(* C2, C3: AddRules.                                                       *)
(***************************************************************************)
\* rule is what compiling jr yields, for some range order of its header map
CompiledFrom(rule, jr) ==
    \E hord \in Orders(DOMAIN jr.HTTPHeader) :
        LET c == compileRule(jr, hord) IN c.err = <<>> /\ c.rule = rule

\* provider q has the same entry, or the same absence, before and after
EntryKept(q) ==
    /\ q \in DOMAIN matcher[1] <=> q \in DOMAIN before[1]
    /\ q \in DOMAIN before[1] => matcher[1][q] = before[1][q]

\* C2: after a successful AddRules, every provider of the batch holds the
\* compiled rule of the batch and nothing else, and every other provider keeps
\* the entry it had; so along any sequence of successful calls an entry is the
\* compiled rule of the most recent batch naming its provider.
C2_LaterReplaces ==
    (call.op = "AddRules" /\ ret.err = <<>>) =>
        \A q \in Providers :
            IF q \in DOMAIN call.data.Services
            THEN q \in DOMAIN matcher[1] /\ CompiledFrom(matcher[1][q], call.data.Services[q])
            ELSE EntryKept(q)

\* C2 witness: a successful AddRules replaced a rule with a title by a rule
\* without one, and left the other provider's entry alone
C2_Witness ==
    /\ call.op = "AddRules"
    /\ ret.err = <<>>
    /\ \E q \in DOMAIN call.data.Services \cap DOMAIN before[1] :
            /\ before[1][q].TitleExact # <<>>
            /\ matcher[1][q].TitleExact = <<>>
            /\ DOMAIN matcher[1][q].Headers # {}
    /\ \E q \in DOMAIN before[1] \ DOMAIN call.data.Services : matcher[1][q] = before[1][q]

\* C3: when AddRules returns an error, every entry is its entry from before
\* the call or the fully compiled rule of its provider from the batch; the
\* provider that failed and the providers outside the batch keep their
\* entries, and a document that does not parse changes nothing.
C3_NoPartialEntry ==
    (call.op = "AddRules" /\ ret.err # <<>>) =>
        /\ call.data.malformed => matcher = before
        /\ ~call.data.malformed =>
            /\ ret.err[1].provider \in DOMAIN call.data.Services
            /\ \A q \in Providers :
                 \/ EntryKept(q)
                 \/ /\ q \in DOMAIN call.data.Services
                    /\ q # ret.err[1].provider
                    /\ q \in DOMAIN matcher[1]
                    /\ CompiledFrom(matcher[1][q], call.data.Services[q])

\* C3 witness: an AddRules that failed on one provider had already installed
\* the other provider of the batch, and the failed provider kept an entry
C3_Witness ==
    /\ call.op = "AddRules"
    /\ ret.err # <<>>
    /\ ~call.data.malformed
    /\ ret.err[1].provider \in DOMAIN before[1]
    /\ \E q \in DOMAIN call.data.Services : q \in DOMAIN before[1] /\ matcher[1][q] # before[1][q]

(***************************************************************************)
(* C8: compilation failures.                                               *)
(***************************************************************************)
DashCount(text) == Cardinality({i \in 1..Len(text) : text[i] = "-"})

StatusMalformed(jr) == DashCount(jr.HTTPStatusCode) >= 2
RegexMalformed(jr) == \E i \in 1..Len(jr.HTTPBodyRegex) : regexpCompile(jr.HTTPBodyRegex[i]).err

\* C8: loading fails in compilation exactly when a rule description has a status
\* text of more than two parts or a body regex that does not compile; the
\* error then names a provider with such a description and its cause,
\* NewMatcher returns no Matcher, and AddRules stores nothing for that provider.
C8_CompileFailure ==
    (/\ call.op \in {"NewMatcher", "AddRules"}
     /\ call.op = "NewMatcher" => call.rulesPath # MissingPath
     /\ ~call.data.malformed) =>
        LET sv == call.data.Services
            bad == {q \in DOMAIN sv : StatusMalformed(sv[q]) \/ RegexMalformed(sv[q])}
        IN  /\ ret.err # <<>> <=> bad # {}
            /\ ret.err # <<>> =>
                /\ ret.err[1].msg = "compiling rule for"
                /\ ret.err[1].provider \in bad
                /\ LET jr == sv[ret.err[1].provider]
                       cause == ret.err[1].cause
                   IN  IF StatusMalformed(jr)
                       THEN cause.kind = "invalid status code format" /\ cause.text = jr.HTTPStatusCode
                       ELSE /\ cause.kind = "invalid body regex pattern"
                            /\ \E i \in 1..Len(jr.HTTPBodyRegex) :
                                    /\ jr.HTTPBodyRegex[i] = cause.text
                                    /\ regexpCompile(cause.text).err
                /\ call.op = "NewMatcher" => ret.m = <<>> /\ matcher = <<>>
                /\ call.op = "AddRules" => EntryKept(ret.err[1].provider)
            /\ (ret.err = <<>> /\ call.op = "NewMatcher") => matcher # <<>>

\* C8 witness: NewMatcher failed on a body regex that does not compile, after
\* an earlier pattern of the same rule had compiled
C8_Witness ==
    /\ call.op = "NewMatcher"
    /\ ret.err # <<>>
    /\ ret.err[1].msg = "compiling rule for"
    /\ ret.err[1].cause.kind = "invalid body regex pattern"
    /\ Len(call.data.Services[ret.err[1].provider].HTTPBodyRegex) = 2
    /\ matcher = <<>>

(***************************************************************************)
(* C10: determinism of Match.                                              *)
(***************************************************************************)
\* C10 as stated: for the rules loaded and the response given, every
\* evaluation of Match returns the same set of providers, whatever the order in
\* which the maps are ranged over.
C10_Deterministic ==
    call.op = "Match" =>
        \A hord \in Orders(DOMAIN call.resp.Headers), pord \in Orders(DOMAIN matcher[1]) :
            SeqToSet(MatchResult(matcher[1], call.resp, hord, pord)) = SeqToSet(ret.matches)

(***************************************************************************)
(* SpecHeader: header matching.  A rule description holding only an        *)
(* http_header map is compiled and a response holding only headers is      *)
(* evaluated by Match against it.                                          *)
(***************************************************************************)
RuleHeaderNames == {<<"S", "v">>, <<"s", "v">>, <<"x">>}
RuleHeaderValues == {<<"c">>, <<"n">>}
ResponseHeaderKeys == {<<"S", "V">>, <<"s", "v">>, <<"x">>}
ResponseHeaderValues == {<<"c">>, <<"C">>, <<"n", "c">>}

RuleHeaderMaps == UNION {[ks -> RuleHeaderValues] : ks \in SUBSET RuleHeaderNames}
ResponseHeaderMaps == UNION {[ks -> ResponseHeaderValues] : ks \in SUBSET ResponseHeaderKeys}

\* Match of the response with header map headers against the one rule compiled
\* from the http_header map ruleHeaders: TRUE when the provider is returned
HeaderMatch(ruleHeaders, headers, cord, hord) ==
    LET c == compileRule([EmptyRuleJSON EXCEPT !.HTTPHeader = ruleHeaders], cord)
        resp == [EmptyResponse EXCEPT !.Headers = headers]
    IN  MatchResult(("p" :> c.rule), resp, hord, <<"p">>) = <<"p">>

InitHeader ==
    /\ matcher = <<>>
    /\ before = <<>>
    /\ heap = EmptyMap
    /\ gor = <<>>
    /\ \E rh \in RuleHeaderMaps, hh \in ResponseHeaderMaps :
            call = [op |-> "header", rule |-> rh, headers |-> hh]
    /\ ret = [stage |-> "start"]

EvalHeader ==
    /\ ret.stage = "start"
    /\ \E cord \in Orders(DOMAIN call.rule), hord \in Orders(DOMAIN call.headers) :
            ret' = [stage |-> "done", matched |-> HeaderMatch(call.rule, call.headers, cord, hord)]
    /\ UNCHANGED <<matcher, before, call, heap, gor>>

NextHeader == EvalHeader

SpecHeader == InitHeader /\ [][NextHeader]_vars

(***************************************************************************)
(* C5: header names are matched without regard to letter case.             *)
(***************************************************************************)
UpperChar(c) ==
    IF \E i \in 1..26 : Lowers[i] = c THEN Uppers[CHOOSE i \in 1..26 : Lowers[i] = c] ELSE c

ToUpper(sq) == [i \in 1..Len(sq) |-> UpperChar(sq[i])]

Capitalized(sq) == [i \in 1..Len(sq) |-> IF i = 1 THEN UpperChar(sq[i]) ELSE LowerChar(sq[i])]

\* a name with its letter case changed
CaseVariants(k) == {k, ToLower(k), ToUpper(k), Capitalized(k)}

\* the maps obtained from m by changing the letter case of its keys
Recasings(m) ==
    LET names == UNION {CaseVariants(k) : k \in DOMAIN m}
        renamings == {f \in [DOMAIN m -> names] :
                        /\ \A k \in DOMAIN m : f[k] \in CaseVariants(k)
                        /\ \A j, k \in DOMAIN m : f[j] = f[k] => j = k}
    IN  {[n \in {f[k] : k \in DOMAIN m} |-> m[CHOOSE k \in DOMAIN m : f[k] = n]] : f \in renamings}

\* what Match may answer, over the orders in which the two maps may be ranged
Outcomes(ruleHeaders, headers) ==
    {HeaderMatch(ruleHeaders, headers, cord, hord) :
        cord \in Orders(DOMAIN ruleHeaders), hord \in Orders(DOMAIN headers)}

\* no two keys of m differ only in letter case
CaseDistinct(m) == \A j, k \in DOMAIN m : ToLower(j) = ToLower(k) => j = k

\* C5: changing the letter case of a header name of the rule description, or of
\* a header key of the response, does not change whether Match returns the
\* provider; and the provider is returned exactly when every header the rule
\* names is a header of the response, whatever the case of either name, whose
\* value contains the required text byte for byte.
C5_HeaderNameCase ==
    ret.stage = "done" =>
        /\ ret.matched \in Outcomes(call.rule, call.headers)
        /\ \A rh \in Recasings(call.rule) :
                Outcomes(rh, call.headers) = Outcomes(call.rule, call.headers)
        /\ \A hh \in Recasings(call.headers) :
                Outcomes(call.rule, hh) = Outcomes(call.rule, call.headers)
        /\ (CaseDistinct(call.rule) /\ CaseDistinct(call.headers)) =>
                (ret.matched <=>
                    \A n \in DOMAIN call.rule :
                        \E k \in DOMAIN call.headers :
                            /\ ToLower(k) = ToLower(n)
                            /\ Contains(call.headers[k], call.rule[n]))

\* C5 witness: the rule names "Sv", the response carries "SV", and the
\* provider was returned because the value contains the required text
C5_Witness ==
    /\ ret.stage = "done"
    /\ ret.matched
    /\ call.rule = (<<"S", "v">> :> <<"c">>)
    /\ call.headers = (<<"S", "V">> :> <<"n", "c">>)

(***************************************************************************)
(* SpecConc: concurrent Match calls on one Matcher, no AddRules running.   *)
(* Each goroutine runs Match step by step: one iteration of a range loop   *)
(* per step.  The header map of a Response is a reference: two calls may   *)
(* be handed the same map.                                                 *)
(***************************************************************************)
Goroutines == 1..NumGoroutines
Objects == {"h1", "h2"}

ConcHeaderMaps ==
    { EmptyMap,
      (ServerKey :> <<"c">>),
      (ServerKey :> <<"c">>) @@ (<<"s">> :> <<"n">>) }

\* the Matcher the calls share: the embedded rules, compiled
ConcRules == InstallRules(<<>>, defaultRules.Services, <<"cf", "ak">>,
                          [q \in DOMAIN defaultRules.Services |-> <<<<"s">>>>]).rules

\* the Response handed to goroutine g, its Headers field resolved through the heap
CallerResponse(g) ==
    [StatusCode |-> 2, Headers |-> heap[call.headers[g]], Body |-> <<"e", "1">>,
     Title |-> <<"T">>, RequestURL |-> <<>>]

\* the write of the lowered key going into the map the caller handed in
StoreLoweredInPlace(hp, lowered, obj, k) ==
    [heap |-> [hp EXCEPT ![obj] =
                    [lk \in DOMAIN hp[obj] \cup {ToLower(k)} |->
                        IF lk = ToLower(k) THEN hp[obj][k] ELSE hp[obj][lk]]],
     lowered |-> lowered]

\* loweredHeaders[strings.ToLower(k)] = v: the write goes to the local map
StoreLowered(hp, lowered, obj, k) ==
    [heap |-> hp,
     lowered |-> [lk \in DOMAIN lowered \cup {ToLower(k)} |->
                    IF lk = ToLower(k) THEN hp[obj][k] ELSE lowered[lk]]]

InitConc ==
    /\ matcher = <<ConcRules>>
    /\ before = matcher
    /\ heap \in [Objects -> ConcHeaderMaps]
    /\ \E refs \in [Goroutines -> Objects] : call = [op |-> "Match", headers |-> refs, heap |-> heap]
    /\ ret = Idle
    /\ gor = [g \in Goroutines |->
                [pc |-> "call", keysLeft |-> {}, loweredHeaders |-> EmptyMap,
                 headersLocal |-> FALSE, providersLeft |-> {}, matches |-> <<>>]]

\* entry of Match: loweredHeaders := make(map), the range over resp.Headers begins
MatchEnter(g) ==
    /\ gor[g].pc = "call"
    /\ gor' = [gor EXCEPT ![g].pc = "lowering",
                          ![g].keysLeft = DOMAIN heap[call.headers[g]]]
    /\ UNCHANGED <<matcher, before, call, ret, heap>>

\* one iteration of `for k, v := range resp.Headers`
LowerStep(g) ==
    /\ gor[g].pc = "lowering"
    /\ \E k \in gor[g].keysLeft \cap DOMAIN heap[call.headers[g]] :
         LET w == StoreLowered(heap, gor[g].loweredHeaders, call.headers[g], k)
         IN  /\ heap' = w.heap
             /\ gor' = [gor EXCEPT ![g].loweredHeaders = w.lowered,
                                   ![g].keysLeft = gor[g].keysLeft \ {k}]
    /\ UNCHANGED <<matcher, before, call, ret>>

\* resp.Headers = loweredHeaders, on the callee's copy of the Response; the
\* range over m.rules begins
LowerEnd(g) ==
    /\ gor[g].pc = "lowering"
    /\ gor[g].keysLeft \cap DOMAIN heap[call.headers[g]] = {}
    /\ gor' = [gor EXCEPT ![g].pc = "ranging",
                          ![g].headersLocal = TRUE,
                          ![g].providersLeft = DOMAIN matcher[1]]
    /\ UNCHANGED <<matcher, before, call, ret, heap>>

\* one iteration of `for provider, rule := range m.rules`
RuleStep(g) ==
    /\ gor[g].pc = "ranging"
    /\ \E provider \in gor[g].providersLeft :
         LET resp == [CallerResponse(g) EXCEPT
                        !.Headers = IF gor[g].headersLocal THEN gor[g].loweredHeaders
                                    ELSE heap[call.headers[g]]]
         IN  gor' = [gor EXCEPT
                        ![g].providersLeft = gor[g].providersLeft \ {provider},
                        ![g].matches = IF matchRule(resp, matcher[1][provider])
                                       THEN Append(gor[g].matches, provider)
                                       ELSE gor[g].matches]
    /\ UNCHANGED <<matcher, before, call, ret, heap>>

\* return matches
MatchReturn(g) ==
    /\ gor[g].pc = "ranging"
    /\ gor[g].providersLeft = {}
    /\ gor' = [gor EXCEPT ![g].pc = "done"]
    /\ UNCHANGED <<matcher, before, call, ret, heap>>

NextConc ==
    \E g \in Goroutines :
        MatchEnter(g) \/ LowerStep(g) \/ LowerEnd(g) \/ RuleStep(g) \/ MatchReturn(g)

SpecConc == InitConc /\ [][NextConc]_vars

(***************************************************************************)
(* C9: Match only reads.                                                   *)
(***************************************************************************)
\* the sets Match may return for resp when it runs alone
AloneResults(rules, resp) ==
    {SeqToSet(MatchResult(rules, resp, hord, pord)) :
        hord \in Orders(DOMAIN resp.Headers), pord \in Orders(DOMAIN rules)}

\* C9: while Match calls run concurrently, the Matcher's mapping and its
\* compiled rules stay as they were, every header map handed in by a caller
\* stays as it was, and a call that has returned has returned a set it returns
\* when run alone on the response it was given.
C9_MatchOnlyReads ==
    /\ matcher = before
    /\ heap = call.heap
    /\ \A g \in Goroutines :
            gor[g].pc = "done" =>
                SeqToSet(gor[g].matches) \in
                    AloneResults(before[1],
                                 [StatusCode |-> 2, Headers |-> call.heap[call.headers[g]],
                                  Body |-> <<"e", "1">>, Title |-> <<"T">>, RequestURL |-> <<>>])

\* C9 witness: every call has returned, two of them were handed the same
\* header map, which has two keys, and one of them returned both providers
C9_Witness ==
    /\ \A g \in Goroutines : gor[g].pc = "done"
    /\ call.headers[1] = call.headers[2]
    /\ Cardinality(DOMAIN heap[call.headers[1]]) = 2
    /\ \E g \in Goroutines : Len(gor[g].matches) = 2

====
